---- MODULE Spec2Model ----
(***************************************************************************)
(* MongoDbConnection (mongodb-query-connector, interface/connection.rs):   *)
(* transaction minting and the dispatch of every read / write operation to *)
(* its router inside a `catch` scope.                                      *)
(*                                                                         *)
(* Callers are asynchronous tasks.  A call on a Connection takes           *)
(* `&mut self`; the future it creates keeps that borrow until it           *)
(* completes, and a minted Transaction keeps it for its lifetime `'a`.     *)
(***************************************************************************)
EXTENDS Integers, Sequences, FiniteSets, TLC

\* ---------------------------------------------------------------- bounds
MaxLen == 2     \* longest id list a router returns
MaxId  == 2     \* SelectionResult identities 1..MaxId

Tasks == {"t1", "t2"}
Conns == {"c1", "c2"}
Ids   == 1..MaxId
Vals  == {"v1", "v2"}    \* opaque typed results of the other routers
Args  == {"a1", "a2"}    \* opaque validated argument tuples
IsolationLevels == {"ReadCommitted", "Serializable"}

BSeq(S, n) == UNION {[1..k -> S] : k \in 0..n}

\* Option<T> as a sequence of length at most one.
None    == <<>>
Some(x) == <<x>>

\* ------------------------------------------------- results and error types
Ok(v)      == [tag |-> "Ok", val |-> v]
Err(e)     == [tag |-> "Err", err |-> e]
Panic(msg) == [tag |-> "Panic", msg |-> msg]

MongoErrorKinds == {"Unsupported", "DriverError", "ConversionError"}
MongoError(k)   == [layer |-> "MongoError", kind |-> k]

\* MongoError::into_connector_error: the connector ErrorKind a MongoError
\* is re-expressed as.
ErrorKindOf(k) ==
  CASE k = "Unsupported"     -> "Unsupported"
    [] k = "DriverError"     -> "RawDatabaseError"
    [] k = "ConversionError" -> "ConversionError"

into_connector_error(e) == [layer |-> "ConnectorError", kind |-> ErrorKindOf(e.kind)]

\* super::catch: awaits the block and translates a MongoError it raised.
catch(r) == IF r.tag = "Err" THEN Err(into_connector_error(r.err)) ELSE r

\* ------------------------------------------------------- the Connection
\* struct MongoDbConnection { session, database }
session(c)  == IF c = "c1" THEN "s1" ELSE "s2"
database(c) == IF c = "c1" THEN "db1" ELSE "db2"
Sessions    == {session(c) : c \in Conns}

RouterOps ==
  {"create_record", "create_records", "update_records", "update_record",
   "delete_records", "m2m_connect", "m2m_disconnect", "execute_raw",
   "query_raw", "get_single_record", "get_many_records",
   "get_related_m2m_record_ids", "aggregate_records"}

VARIABLES
  pc,            \* task -> "idle" | "awaiting" | "returned" | "holding" | "txAwaiting"
  cur,           \* task -> the call the task made last
  out,           \* task -> what the backend answered to that call
  ret,           \* task -> what the call returned to the task
  calls,         \* task -> the router / backend invocations that call made
  borrow,        \* connection -> the task whose future or Transaction holds &mut self
  sessionUsers,  \* session -> the tasks whose in-flight call holds &mut session
  transactions   \* the Transactions alive: [conn, owner]

vars == <<pc, cur, out, ret, calls, borrow, sessionUsers, transactions>>

NoCall == [conn |-> "none", op |-> "none", arg |-> "none", iso |-> None, via |-> "none"]
NoOut  == [tag |-> "None"]

Init ==
  /\ pc = [t \in Tasks |-> "idle"]
  /\ cur = [t \in Tasks |-> NoCall]
  /\ out = [t \in Tasks |-> NoOut]
  /\ ret = [t \in Tasks |-> NoOut]
  /\ calls = [t \in Tasks |-> <<>>]
  /\ borrow = [c \in Conns |-> "free"]
  /\ sessionUsers = [s \in Sessions |-> {}]
  /\ transactions = {}

\* ------------------------------------------------------------- routers
\* What a router is handed: (&self.database, &mut self.session, arguments).
Invocation(fn, c, a, ut) ==
  [fn |-> fn, database |-> database(c), session |-> session(c),
   args |-> a, update_type |-> ut]

MongoErrs == {Err(MongoError(k)) : k \in MongoErrorKinds}

\* The results a router can produce: write::update_records yields a list of
\* SelectionResults, every other router an opaque typed value; any of them
\* can fail with a MongoError.
RouterOutcomes(op) ==
  IF op \in {"update_records", "update_record"}
    THEN {Ok(l) : l \in BSeq(Ids, MaxLen)} \cup MongoErrs
    ELSE {Ok(v) : v \in Vals} \cup MongoErrs

\* Vec::pop: the last element, if any.
pop(l) == IF Len(l) = 0 THEN None ELSE Some(l[Len(l)])

\* Bug variants of the methods below, used to show that the properties
\* below depend on them.
update_record_first(c, a, r) ==
  [call |-> Invocation("write::update_records", c, a, "One"),
   ret  |-> catch(IF r.tag = "Ok"
                    THEN Ok(IF Len(r.val) = 0 THEN None ELSE Some(r.val[1]))
                    ELSE r)]

update_records_one(c, a, r) ==
  [call |-> Invocation("write::update_records", c, a, "One"),
   ret  |-> catch(IF r.tag = "Ok" THEN Ok(Len(r.val)) ELSE r)]

delete_records_uncaught(c, a, r) ==
  [call |-> Invocation("write::delete_records", c, a, "none"), ret |-> r]

\* ------------------------------------------ WriteOperations (lines 50-171)
\* Each method: the router invocation it makes, and what it returns once the
\* router has answered r.
create_record(c, a, r) ==
  [call |-> Invocation("write::create_record", c, a, "none"), ret |-> catch(r)]

create_records(c, a, r) ==
  [call |-> Invocation("write::create_records", c, a, "none"), ret |-> catch(r)]

update_records(c, a, r) ==
  [call |-> Invocation("write::update_records", c, a, "Many"),
   ret  |-> catch(IF r.tag = "Ok" THEN Ok(Len(r.val)) ELSE r)]

update_record(c, a, r) ==
  [call |-> Invocation("write::update_records", c, a, "One"),
   ret  |-> catch(IF r.tag = "Ok" THEN Ok(pop(r.val)) ELSE r)]

delete_records(c, a, r) ==
  [call |-> Invocation("write::delete_records", c, a, "none"), ret |-> catch(r)]

m2m_connect(c, a, r) ==
  [call |-> Invocation("write::m2m_connect", c, a, "none"), ret |-> catch(r)]

m2m_disconnect(c, a, r) ==
  [call |-> Invocation("write::m2m_disconnect", c, a, "none"), ret |-> catch(r)]

execute_raw(c, a, r) ==
  [call |-> Invocation("write::execute_raw", c, a, "none"), ret |-> catch(r)]

query_raw(c, a, r) ==
  [call |-> Invocation("write::query_raw", c, a, "none"), ret |-> catch(r)]

\* ------------------------------------------- ReadOperations (lines 173-254)
get_single_record(c, a, r) ==
  [call |-> Invocation("read::get_single_record", c, a, "none"), ret |-> catch(r)]

get_many_records(c, a, r) ==
  [call |-> Invocation("read::get_many_records", c, a, "none"), ret |-> catch(r)]

get_related_m2m_record_ids(c, a, r) ==
  [call |-> Invocation("read::get_related_m2m_record_ids", c, a, "none"),
   ret  |-> catch(r)]

aggregate_records(c, a, r) ==
  [call |-> Invocation("aggregate::aggregate", c, a, "none"), ret |-> catch(r)]

Method(op, c, a, r) ==
  CASE op = "create_record"              -> create_record(c, a, r)
    [] op = "create_records"             -> create_records(c, a, r)
    [] op = "update_records"             -> update_records(c, a, r)
    [] op = "update_record"              -> update_record(c, a, r)
    [] op = "delete_records"             -> delete_records(c, a, r)
    [] op = "m2m_connect"                -> m2m_connect(c, a, r)
    [] op = "m2m_disconnect"             -> m2m_disconnect(c, a, r)
    [] op = "execute_raw"                -> execute_raw(c, a, r)
    [] op = "query_raw"                  -> query_raw(c, a, r)
    [] op = "get_single_record"          -> get_single_record(c, a, r)
    [] op = "get_many_records"           -> get_many_records(c, a, r)
    [] op = "get_related_m2m_record_ids" -> get_related_m2m_record_ids(c, a, r)
    [] op = "aggregate_records"          -> aggregate_records(c, a, r)

\* ------------------------------------------------------------- borrowing
\* Bug variant: only in-flight calls are seen, a Transaction's borrow is not.
MutBorrowIgnoringTransaction(c) ==
  borrow[c] = "free" \/ \E x \in transactions : x.conn = c

\* Bug variant: the pending future does not keep the Connection borrowed.
LendNothing(t, c) == UNCHANGED borrow

\* `&mut self`: the call is accepted only while nothing borrows the Connection.
MutBorrow(c) == borrow[c] = "free"

\* The future of an `async fn (&mut self)` keeps the borrow while it is pending.
Lend(t, c) == borrow' = [borrow EXCEPT ![c] = t]

\* The borrow ends when the future completes.
Release(t, c) == borrow' = [borrow EXCEPT ![c] = "free"]

UseSession(t, c)  == sessionUsers' = [sessionUsers EXCEPT ![session(c)] = @ \cup {t}]
LeaveSession(t, c) == sessionUsers' = [sessionUsers EXCEPT ![session(c)] = @ \ {t}]

\* --------------------------------------------- operations with a router
\* The method is called and runs up to the router's await.
Call(t, c, op, a) ==
  /\ pc[t] = "idle"
  /\ MutBorrow(c)
  /\ Lend(t, c)
  /\ UseSession(t, c)
  /\ pc' = [pc EXCEPT ![t] = "awaiting"]
  /\ cur' = [cur EXCEPT ![t] = [conn |-> c, op |-> op, arg |-> a, iso |-> None,
                                via |-> "connection"]]
  /\ calls' = [calls EXCEPT ![t] = <<Method(op, c, a, NoOut).call>>]
  /\ UNCHANGED <<out, ret, transactions>>

\* Bug variant: a failed router call is tried once more before returning.
ResumeRetry(t, r) ==
  /\ pc[t] = "awaiting"
  /\ cur[t].op \in RouterOps
  /\ r \in RouterOutcomes(cur[t].op)
  /\ IF r.tag = "Err" /\ Len(calls[t]) < 2
       THEN /\ calls' = [calls EXCEPT ![t] = Append(@, @[1])]
            /\ UNCHANGED <<pc, cur, out, ret, borrow, sessionUsers, transactions>>
       ELSE /\ out' = [out EXCEPT ![t] = r]
            /\ ret' = [ret EXCEPT ![t] =
                         Method(cur[t].op, cur[t].conn, cur[t].arg, r).ret]
            /\ pc' = [pc EXCEPT ![t] = "returned"]
            /\ Release(t, cur[t].conn)
            /\ LeaveSession(t, cur[t].conn)
            /\ UNCHANGED <<cur, calls, transactions>>

\* The router answers r; the catch scope ends and the method returns.
Resume(t, r) ==
  /\ pc[t] = "awaiting"
  /\ cur[t].op \in RouterOps
  /\ r \in RouterOutcomes(cur[t].op)
  /\ out' = [out EXCEPT ![t] = r]
  /\ ret' = [ret EXCEPT ![t] = Method(cur[t].op, cur[t].conn, cur[t].arg, r).ret]
  /\ pc' = [pc EXCEPT ![t] = "returned"]
  /\ Release(t, cur[t].conn)
  /\ LeaveSession(t, cur[t].conn)
  /\ UNCHANGED <<cur, calls, transactions>>

\* The caller has taken the result.
Finish(t) ==
  /\ pc[t] = "returned"
  /\ pc' = [pc EXCEPT ![t] = "idle"]
  /\ cur' = [cur EXCEPT ![t] = NoCall]
  /\ out' = [out EXCEPT ![t] = NoOut]
  /\ ret' = [ret EXCEPT ![t] = NoOut]
  /\ calls' = [calls EXCEPT ![t] = <<>>]
  /\ UNCHANGED <<borrow, sessionUsers, transactions>>

\* -------------------------------------------------- start_transaction
\* session.start_transaction, as awaited inside MongoDbTransaction::new.
TxStartOutcomes == {Ok("started")} \cup {Err(MongoError("DriverError"))}

\* MongoDbTransaction::new(connection): the Transaction, or the backend's
\* failure already expressed as a connector error.
MongoDbTransaction_new(r) ==
  IF r.tag = "Ok" THEN Ok("tx") ELSE Err(into_connector_error(r.err))

\* Bug variant: the isolation level is not looked at.
start_transaction_any_level(t, c, iso) ==
  /\ pc[t] = "idle"
  /\ MutBorrow(c)
  /\ cur' = [cur EXCEPT ![t] = [conn |-> c, op |-> "start_transaction", arg |-> "none",
                                iso |-> iso, via |-> "connection"]]
  /\ Lend(t, c)
  /\ UseSession(t, c)
  /\ pc' = [pc EXCEPT ![t] = "awaiting"]
  /\ calls' = [calls EXCEPT ![t] =
                 <<Invocation("session.start_transaction", c, "none", "none")>>]
  /\ UNCHANGED <<out, ret, transactions>>

\* Lines 28-39: the isolation-level check, then MongoDbTransaction::new(self)
\* up to its await.
start_transaction(t, c, iso) ==
  /\ pc[t] = "idle"
  /\ MutBorrow(c)
  /\ cur' = [cur EXCEPT ![t] = [conn |-> c, op |-> "start_transaction", arg |-> "none",
                                iso |-> iso, via |-> "connection"]]
  /\ IF iso # None
       THEN /\ ret' = [ret EXCEPT ![t] =
                         Err(into_connector_error(MongoError("Unsupported")))]
            /\ pc' = [pc EXCEPT ![t] = "returned"]
            /\ calls' = [calls EXCEPT ![t] = <<>>]
            /\ UNCHANGED <<out, borrow, sessionUsers, transactions>>
       ELSE /\ Lend(t, c)
            /\ UseSession(t, c)
            /\ pc' = [pc EXCEPT ![t] = "awaiting"]
            /\ calls' = [calls EXCEPT ![t] =
                           <<Invocation("session.start_transaction", c, "none", "none")>>]
            /\ UNCHANGED <<out, ret, transactions>>

\* Bug variant: the Transaction handed out does not carry the borrow.
MintedUnborrowed(t, c) ==
  /\ transactions' = transactions \cup {[conn |-> c, owner |-> t]}
  /\ pc' = [pc EXCEPT ![t] = "holding"]
  /\ Release(t, c)

\* Bug variant: a failed construction leaves the Connection borrowed.
FailedStillBorrowed(t, c) ==
  /\ pc' = [pc EXCEPT ![t] = "returned"]
  /\ UNCHANGED <<borrow, transactions>>

\* Lines 39-41, Ok: the Transaction is boxed and handed out; it carries the
\* lifetime 'a of the `&'a mut self` borrow.
Minted(t, c) ==
  /\ transactions' = transactions \cup {[conn |-> c, owner |-> t]}
  /\ pc' = [pc EXCEPT ![t] = "holding"]
  /\ UNCHANGED borrow

\* Line 39, Err: `?` returns the error; nothing was constructed and the
\* borrow ends with the call.
Failed(t, c) ==
  /\ pc' = [pc EXCEPT ![t] = "returned"]
  /\ Release(t, c)
  /\ UNCHANGED transactions

\* Lines 39-41: MongoDbTransaction::new has answered.
start_transaction_resume(t, r) ==
  /\ pc[t] = "awaiting"
  /\ cur[t].op = "start_transaction"
  /\ r \in TxStartOutcomes
  /\ out' = [out EXCEPT ![t] = r]
  /\ ret' = [ret EXCEPT ![t] = MongoDbTransaction_new(r)]
  /\ LeaveSession(t, cur[t].conn)
  /\ IF MongoDbTransaction_new(r).tag = "Ok"
       THEN Minted(t, cur[t].conn)
       ELSE Failed(t, cur[t].conn)
  /\ UNCHANGED <<cur, calls>>

\* ------------------------------------------------ native_upsert_record
\* Bug variant: the refusal is an ordinary, recoverable error value.
native_upsert_record_recoverable(t, c) ==
  /\ pc[t] = "idle"
  /\ MutBorrow(c)
  /\ cur' = [cur EXCEPT ![t] = [conn |-> c, op |-> "native_upsert_record",
                                arg |-> "none", iso |-> None, via |-> "connection"]]
  /\ ret' = [ret EXCEPT ![t] = Err(into_connector_error(MongoError("Unsupported")))]
  /\ pc' = [pc EXCEPT ![t] = "returned"]
  /\ calls' = [calls EXCEPT ![t] = <<>>]
  /\ UNCHANGED <<out, borrow, sessionUsers, transactions>>

\* Lines 164-170: unimplemented!().
native_upsert_record(t, c) ==
  /\ pc[t] = "idle"
  /\ MutBorrow(c)
  /\ cur' = [cur EXCEPT ![t] = [conn |-> c, op |-> "native_upsert_record", arg |-> "none",
                                iso |-> None, via |-> "connection"]]
  /\ ret' = [ret EXCEPT ![t] = Panic("Native upsert is not currently supported.")]
  /\ pc' = [pc EXCEPT ![t] = "returned"]
  /\ calls' = [calls EXCEPT ![t] = <<>>]
  /\ UNCHANGED <<out, borrow, sessionUsers, transactions>>

\* ------------------------------------------------------ the Transaction
\* An operation issued through the Transaction: forwarded to the same router
\* with the session and database of the Connection it borrows.
TxCall(t, op, a) ==
  /\ pc[t] = "holding"
  /\ UseSession(t, cur[t].conn)
  /\ pc' = [pc EXCEPT ![t] = "txAwaiting"]
  /\ cur' = [cur EXCEPT ![t] = [conn |-> cur[t].conn, op |-> op, arg |-> a,
                                iso |-> None, via |-> "transaction"]]
  /\ calls' = [calls EXCEPT ![t] = <<Method(op, cur[t].conn, a, NoOut).call>>]
  /\ out' = [out EXCEPT ![t] = NoOut]
  /\ ret' = [ret EXCEPT ![t] = NoOut]
  /\ UNCHANGED <<borrow, transactions>>

TxResume(t, r) ==
  /\ pc[t] = "txAwaiting"
  /\ r \in RouterOutcomes(cur[t].op)
  /\ out' = [out EXCEPT ![t] = NoOut]
  /\ ret' = [ret EXCEPT ![t] = Method(cur[t].op, cur[t].conn, cur[t].arg, r).ret]
  /\ pc' = [pc EXCEPT ![t] = "holding"]
  /\ LeaveSession(t, cur[t].conn)
  /\ cur' = [cur EXCEPT ![t] = [conn |-> cur[t].conn, op |-> "start_transaction",
                                arg |-> "none", iso |-> None, via |-> "connection"]]
  /\ calls' = [calls EXCEPT ![t] = <<>>]
  /\ UNCHANGED <<borrow, transactions>>

\* commit / rollback / drop end the Transaction and with it the borrow.
EndTransaction(t, how) ==
  /\ pc[t] = "holding"
  /\ transactions' = transactions \ {[conn |-> cur[t].conn, owner |-> t]}
  /\ Release(t, cur[t].conn)
  /\ cur' = [cur EXCEPT ![t] = [conn |-> cur[t].conn, op |-> how, arg |-> "none",
                                iso |-> None, via |-> "transaction"]]
  /\ out' = [out EXCEPT ![t] = NoOut]
  /\ ret' = [ret EXCEPT ![t] = IF how = "drop" THEN NoOut ELSE Ok("unit")]
  /\ calls' = [calls EXCEPT ![t] = <<>>]
  /\ pc' = [pc EXCEPT ![t] = "returned"]
  /\ UNCHANGED sessionUsers

commit(t)   == EndTransaction(t, "commit")
rollback(t) == EndTransaction(t, "rollback")
drop(t)     == EndTransaction(t, "drop")

Next ==
  \/ \E t \in Tasks, c \in Conns, op \in RouterOps, a \in Args : Call(t, c, op, a)
  \/ \E t \in Tasks : \E r \in RouterOutcomes(cur[t].op) : Resume(t, r)
  \/ \E t \in Tasks, c \in Conns, iso \in {None} \cup {Some(l) : l \in IsolationLevels} :
       start_transaction(t, c, iso)
  \/ \E t \in Tasks : \E r \in TxStartOutcomes : start_transaction_resume(t, r)
  \/ \E t \in Tasks, c \in Conns : native_upsert_record(t, c)
  \/ \E t \in Tasks, op \in RouterOps, a \in Args : TxCall(t, op, a)
  \/ \E t \in Tasks : \E r \in RouterOutcomes(cur[t].op) : TxResume(t, r)
  \/ \E t \in Tasks : commit(t)
  \/ \E t \in Tasks : rollback(t)
  \/ \E t \in Tasks : drop(t)
  \/ \E t \in Tasks : Finish(t)

Spec == Init /\ [][Next]_vars

\* ================================================================ properties
TxOn(c) == {x \in transactions : x.conn = c}

\* Task t has got back the result of `op`, called on the Connection itself.
Returned(t, op) ==
  pc[t] = "returned" /\ cur[t].via = "connection" /\ cur[t].op = op

Last(l) == l[Len(l)]

\* C1: at most one Transaction minted from a Connection is alive at a time,
\* and while it is alive no call (operation, raw call, start_transaction) is
\* accepted or in flight on the Connection itself.
C1_OneTransactionExclusive ==
  /\ [](\A c \in Conns :
          /\ Cardinality(TxOn(c)) <= 1
          /\ TxOn(c) # {} =>
               \A t \in Tasks :
                 ~(pc[t] = "awaiting" /\ cur[t].via = "connection" /\ cur[t].conn = c))
  /\ [][\A t \in Tasks :
          (pc[t] = "idle" /\ pc'[t] # "idle") => TxOn(cur'[t].conn) = {}]_vars

\* A Transaction is alive on one Connection while another task is in flight
\* on the other one.
C1_Witness ==
  \E x \in transactions : \E u \in Tasks :
    u # x.owner /\ pc[u] = "awaiting" /\ cur[u].conn # x.conn

\* C2: start_transaction(Some(level)) returns the Unsupported error, makes no
\* backend call, constructs no Transaction and does not touch the session.
C2_IsolationLevelUnsupported ==
  \A t \in Tasks :
    (Returned(t, "start_transaction") /\ cur[t].iso # None) =>
      /\ ret[t].tag = "Err"
      /\ ret[t].err = into_connector_error(MongoError("Unsupported"))
      /\ calls[t] = <<>>
      /\ out[t].tag = "None"
      /\ t \notin sessionUsers[session(cur[t].conn)]
      /\ \A x \in transactions : x.owner # t

C2_Witness ==
  \E t \in Tasks :
    Returned(t, "start_transaction") /\ cur[t].iso = Some("Serializable")

\* C3: update_record returns None when the list write::update_records gave for
\* the same arguments is empty, and otherwise the last element of that list.
C3_UpdateRecordPopsLast ==
  \A t \in Tasks :
    (Returned(t, "update_record") /\ out[t].tag = "Ok") =>
      /\ Len(calls[t]) = 1
      /\ calls[t][1].fn = "write::update_records"
      /\ calls[t][1].args = cur[t].arg
      /\ ret[t].tag = "Ok"
      /\ ret[t].val = IF out[t].val = <<>> THEN None ELSE Some(Last(out[t].val))

\* The router's list has several elements and the first differs from the last.
C3_Witness ==
  \E t \in Tasks :
    /\ Returned(t, "update_record")
    /\ out[t].tag = "Ok"
    /\ Len(out[t].val) >= 2
    /\ out[t].val[1] # Last(out[t].val)

\* C4: native_upsert_record ends in a panic, not in an error value, and
\* invokes no router and does not touch the session.
C4_NativeUpsertPanics ==
  \A t \in Tasks :
    Returned(t, "native_upsert_record") =>
      /\ ret[t].tag = "Panic"
      /\ calls[t] = <<>>
      /\ out[t].tag = "None"
      /\ t \notin sessionUsers[session(cur[t].conn)]

\* native_upsert_record was called while the other Connection is lent to a
\* Transaction.
C4_Witness ==
  \E t \in Tasks :
    Returned(t, "native_upsert_record") /\ transactions # {}

\* C5: a failure of the router, or of the backend while the Transaction is
\* constructed, is returned as an error, and as the connector error the
\* failure translates to.
C5_FailuresTranslated ==
  \A t \in Tasks :
    (/\ pc[t] = "returned"
     /\ cur[t].via = "connection"
     /\ cur[t].op \in RouterOps \cup {"start_transaction"}
     /\ out[t].tag = "Err") =>
      /\ ret[t].tag = "Err"
      /\ ret[t].err.layer = "ConnectorError"
      /\ ret[t].err = into_connector_error(out[t].err)

C5_Witness ==
  \E t, u \in Tasks :
    /\ Returned(t, "delete_records") /\ out[t].tag = "Err"
    /\ Returned(u, "start_transaction") /\ out[u].tag = "Err"

\* C6: a session is in use by at most one in-flight operation at a time.
C6_SessionNeverShared ==
  \A s \in Sessions : Cardinality(sessionUsers[s]) <= 1

\* One operation on a Connection has returned and a second one is now in
\* flight on the same Connection.
C6_Witness ==
  \E t, u \in Tasks :
    /\ pc[t] = "returned" /\ cur[t].op \in RouterOps /\ cur[t].via = "connection"
    /\ pc[u] = "awaiting" /\ cur[u].conn = cur[t].conn
    /\ u \in sessionUsers[session(cur[u].conn)]

\* C7: a call invokes its router at most once, and a failure the router
\* reported has been returned to the caller, as an error, after that single
\* invocation.
C7_NoRetries ==
  \A t \in Tasks :
    /\ Len(calls[t]) <= 1
    /\ out[t].tag = "Err" =>
         /\ pc[t] = "returned"
         /\ ret[t].tag = "Err"
         /\ Len(calls[t]) = 1

C7_Witness ==
  \E t \in Tasks :
    Returned(t, "create_records") /\ out[t].tag = "Err" /\ Len(calls[t]) = 1

\* C8: the Connection stays borrowed by the Transaction minted from it for as
\* long as that Transaction is alive, and is free again in the step in which
\* the Transaction is committed, rolled back or dropped.
C8_BorrowedForLifetime ==
  /\ [](\A x \in transactions : borrow[x.conn] = x.owner)
  /\ [][\A x \in transactions :
          x \notin transactions' => borrow'[x.conn] = "free"]_vars

\* After a commit on a Connection a new Transaction has been minted from it.
C8_Witness ==
  \E t, u \in Tasks :
    /\ pc[t] = "returned" /\ cur[t].op = "commit"
    /\ [conn |-> cur[t].conn, owner |-> u] \in transactions

\* The router each method uses, and the update type it asks for.
RouterOf(op) ==
  CASE op = "create_record"              -> "write::create_record"
    [] op = "create_records"             -> "write::create_records"
    [] op \in {"update_records", "update_record"} -> "write::update_records"
    [] op = "delete_records"             -> "write::delete_records"
    [] op = "m2m_connect"                -> "write::m2m_connect"
    [] op = "m2m_disconnect"             -> "write::m2m_disconnect"
    [] op = "execute_raw"                -> "write::execute_raw"
    [] op = "query_raw"                  -> "write::query_raw"
    [] op = "get_single_record"          -> "read::get_single_record"
    [] op = "get_many_records"           -> "read::get_many_records"
    [] op = "get_related_m2m_record_ids" -> "read::get_related_m2m_record_ids"
    [] op = "aggregate_records"          -> "aggregate::aggregate"

UpdateTypeOf(op) ==
  CASE op = "update_records" -> "Many"
    [] op = "update_record"  -> "One"
    [] OTHER                 -> "none"

\* C9: on success a method returns the value of its own router, invoked with
\* the Connection's database and session; update_records asks for Many and
\* returns the length of the list, update_record asks for One and returns the
\* popped last element.
C9_SuccessPassedThrough ==
  \A t \in Tasks :
    (/\ pc[t] = "returned"
     /\ cur[t].via = "connection"
     /\ cur[t].op \in RouterOps
     /\ out[t].tag = "Ok") =>
      /\ calls[t] = << [fn          |-> RouterOf(cur[t].op),
                        database    |-> database(cur[t].conn),
                        session     |-> session(cur[t].conn),
                        args        |-> cur[t].arg,
                        update_type |-> UpdateTypeOf(cur[t].op)] >>
      /\ ret[t].tag = "Ok"
      /\ CASE cur[t].op = "update_records" -> ret[t].val = Len(out[t].val)
           [] cur[t].op = "update_record"  ->
                ret[t].val = IF Len(out[t].val) = 0 THEN None
                             ELSE Some(Last(out[t].val))
           [] OTHER -> ret[t].val = out[t].val

\* update_records has returned the count of a list of two, and a read on the
\* other Connection has returned its router's value.
C9_Witness ==
  \E t, u \in Tasks :
    /\ Returned(t, "update_records") /\ out[t].tag = "Ok" /\ Len(out[t].val) = 2
    /\ Returned(u, "get_many_records") /\ out[u].tag = "Ok"
    /\ cur[u].conn # cur[t].conn

\* C10: when start_transaction returns an error, no Transaction of the caller
\* is alive, and the Connection is neither lent to a Transaction nor left
\* borrowed.
C10_FailedStartLeavesNothing ==
  /\ [](\A t \in Tasks :
          (Returned(t, "start_transaction") /\ ret[t].tag = "Err") =>
            /\ \A x \in transactions : x.owner # t
            /\ borrow[cur[t].conn] # t)
  /\ [][\A t \in Tasks :
          (/\ pc[t] # "returned"
           /\ pc'[t] = "returned"
           /\ cur'[t].op = "start_transaction"
           /\ ret'[t].tag = "Err") =>
            /\ borrow'[cur'[t].conn] = "free"
            /\ \A x \in transactions' : x.conn # cur'[t].conn]_vars

\* start_transaction failed in the backend, and a later call on the same
\* Connection was accepted.
C10_Witness ==
  \E t, u \in Tasks :
    /\ Returned(t, "start_transaction") /\ out[t].tag = "Err"
    /\ pc[u] \in {"awaiting", "holding"} /\ cur[u].conn = cur[t].conn

====
